---- MODULE Spec2Model ----
(***************************************************************************)
(* PlusServerPlugin (src/plugin.py): the create / status / destroy         *)
(* lifecycle of one OpenStack server per order key, over the in-memory     *)
(* registry self.configurations and the provider's servers and keypairs.   *)
(*                                                                         *)
(* Python strings that the code inspects (order keys, resource names) are  *)
(* sequences of one-character strings, so that str.upper, str.find and     *)
(* concatenation are computed.  Messages are records [fmt, arg]: the       *)
(* f-string's text and the sequence of strings substituted into it.        *)
(*                                                                         *)
(* Spec, SpecStatus, SpecRestart, SpecKeys and SpecRetry take each call as *)
(* one step; SpecConcurrent lets two callers step through create and       *)
(* destroy: a step is one access to the registry or one provider call that *)
(* reads or writes servers or keypairs, with the calls before it that      *)
(* touch nothing the other caller can change.                              *)
(***************************************************************************)
EXTENDS Integers, Sequences, FiniteSets, TLC

VARIABLES
    configurations,   \* self.configurations: upper-cased key -> [type, id]
    servers,          \* provider: set of server records
    keypairs,         \* provider: set of keypair records
    images,           \* provider: set of image records
    last,             \* the last call of the orchestrator and how it ended
    succeeded,        \* history: keys whose last successful call was a create
    rt,               \* history: progress of a run of consecutive fault-free calls
    threads           \* concurrent callers: where each one is in its call

vars == <<configurations, servers, keypairs, images, last, succeeded, rt, threads>>

-----------------------------------------------------------------------------
(* Bounds and fixed data of the model *)

MaxServers == 5

Ids == 1..MaxServers

\* order ids as the orchestrator sends them in an offering (before upper())
OrderIds == { <<"a">>, <<"A", "B">> }

\* the same two orders as status and destroy are asked for them, in the other
\* spelling: the registry is keyed by the upper-cased string
InputKeys == { <<"A">>, <<"a", "b">> }

ImageName == "Ubuntu 24.04"

\* f"{os.environ['OS_PROJECT_NAME']}-network"
NetworkName == "project-network"

Statuses == {"ACTIVE", "BUILDING", "ERROR"}

None == "None"

-----------------------------------------------------------------------------
(* Strings *)

UpperChar(c) ==
    CASE c = "a" -> "A"
      [] c = "b" -> "B"
      [] OTHER   -> c

\* str.upper()
Upper(s) == [i \in DOMAIN s |-> UpperChar(s[i])]

\* str.find(sub): the lowest index (from 0) where sub occurs in s, else -1
Find(s, sub) ==
    LET at == { i \in 0..(Len(s) - Len(sub)) : SubSeq(s, i + 1, i + Len(sub)) = sub }
    IN  IF at = {} THEN -1 ELSE CHOOSE i \in at : \A j \in at : i <= j

\* self.server_name_prefix
server_name_prefix == <<"t", "e", "l", "l", "u", "s", "-", "v", "m", "-">>

\* round(x) for x = halves / 2: Python rounds a tie to the even neighbour
Round(halves) ==
    LET q == halves \div 2
    IN  IF halves % 2 = 0 THEN q
        ELSE IF q % 2 = 0 THEN q ELSE q + 1

\* f"SCS-{cores}V-{memory}-{disk_space}"
FlavorName(cores, memory, disk_space) ==
    <<"SCS-", ToString(cores), "V-", ToString(memory), "-", ToString(disk_space)>>

Msg(fmt, arg) == [fmt |-> fmt, arg |-> arg]

NoMsg == Msg("", <<>>)

-----------------------------------------------------------------------------
(* Exceptions *)

NoExc == [type |-> "none", message |-> NoMsg, code |-> 0]

\* InternalException(message, code): line 19 passes the message to Exception
\* and line 20 sets .code; no attribute .message is set
InternalException(message, code) ==
    [type |-> "InternalException", message |-> message, code |-> code]

\* an unclassified exception of the provider layer raised by the call `point`
ProviderFault(point) ==
    [type |-> "ProviderFault", message |-> Msg("provider fault in {}", <<point>>), code |-> 0]

PyError(type, message) == [type |-> type, message |-> message, code |-> 0]

-----------------------------------------------------------------------------
(* The provider (OpenStack), as the plugin sees it *)

\* the image the plugin is configured with: min_ram in MB, min_disk in GB
TheImage == [name |-> ImageName, id |-> "img-1", min_ram |-> 1500, min_disk |-> 20]

\* the SCS flavors the provider offers
Flavors == { FlavorName(1, 2, 20) }

FixedAddr == [addr |-> "10.0.0.5", type |-> "fixed"]

FloatingAddr == [addr |-> "203.0.113.7", type |-> "floating"]

\* server["addresses"]: network name -> list of address entries
Addresses(nets, list) == [n \in nets |-> list]

AddressMaps ==
    { Addresses({}, <<>>),
      Addresses({NetworkName}, <<FixedAddr>>),
      Addresses({NetworkName}, <<FixedAddr, FloatingAddr>>) }

Server(id, name, status, addresses) ==
    [id |-> id, name |-> name, status |-> status, addresses |-> addresses]

Keypair(name, public_key) == [name |-> name, public_key |-> public_key]

\* a server id the provider has not handed out: ids are never reused while
\* a server or a registry entry still carries them
UsedIds(cfg, srv) == { s.id : s \in srv } \cup { cfg[k].id : k \in DOMAIN cfg }

NoId == 0

\* the least unused id; NoId when the ids of the model are used up
FreshId(cfg, srv) ==
    LET free == Ids \ UsedIds(cfg, srv)
    IN  IF free = {} THEN NoId ELSE CHOOSE i \in free : \A j \in free : i <= j

\* the result of a helper: the exception it raised (or NoExc), the provider
\* state it leaves, the provider calls made so far, and its return value
Result(exc, srv, kps, calls, value) ==
    [exc |-> exc, servers |-> srv, keypairs |-> kps, calls |-> calls, value |-> value]

NoServer == Server(NoId, <<>>, None, Addresses({}, <<>>))

NoKeypair == Keypair(<<>>, None)

Called(calls, point) == \E i \in DOMAIN calls : calls[i] = point

\* the servers, or keypairs, named self.server_name_prefix + key
Named(set, key) == { x \in set : x.name = server_name_prefix \o key }

-----------------------------------------------------------------------------
(* _create_keypair, lines 71-101 *)

_create_keypair(srv, kps, calls, keypair_name, pub_key, fault) ==
    LET c1    == Append(calls, "find_keypair")
        found == { k \in kps : k.name = keypair_name }
        c2    == Append(c1, "create_keypair")
    IN  IF fault = "find_keypair_dup"
        THEN Result(InternalException(
                        Msg("Multiple keypairs with the name {} already exist (duplicate resource)",
                            keypair_name), 400),
                    srv, kps, c1, NoKeypair)
        ELSE IF fault = "find_keypair"
        THEN Result(ProviderFault("find_keypair"), srv, kps, c1, NoKeypair)
        ELSE IF found # {}
        THEN Result(NoExc, srv, kps, c1, CHOOSE k \in found : TRUE)
        ELSE IF fault = "create_keypair"
        THEN Result(InternalException(Msg("The provided public key data is invalid", <<>>), 400),
                    srv, kps, c2, NoKeypair)
        ELSE Result(NoExc, srv, kps \cup {Keypair(keypair_name, pub_key)}, c2,
                    Keypair(keypair_name, pub_key))

-----------------------------------------------------------------------------
(* _create_server, lines 103-177 *)

\* lines 125-127: some server's name contains the key
ServerExists(srv, key) == \E s \in srv : Find(s.name, key) # -1

\* line 131: image.get("min_ram") / 1000 > memory
NotEnoughMemory(image, memory) == image.min_ram > 1000 * memory

\* line 133
NotEnoughDisk(image, disk_space) == image.min_disk > disk_space

\* lines 162-175: create_server, then wait_for_server(status="ACTIVE"); when the
\* wait fails the server stays on the provider, here still BUILDING (neither
\* create nor destroy reads the state of a server)
StartServer(cfg, r, key, fault) ==
    LET c1  == Append(r.calls, "create_server")
        c2  == Append(c1, "wait_for_server")
        id  == FreshId(cfg, r.servers)
        new(status) == Server(id, server_name_prefix \o key, status,
                              Addresses({NetworkName}, <<FixedAddr>>))
        failed == InternalException(Msg("Unable to create server", <<>>), 400)
    IN  IF fault = "create_server"
        THEN Result(failed, r.servers, r.keypairs, c1, NoServer)
        ELSE IF fault = "wait_for_server"
        THEN Result(failed, r.servers \cup {new("BUILDING")}, r.keypairs, c2, NoServer)
        ELSE Result(NoExc, r.servers \cup {new("ACTIVE")}, r.keypairs, c2, new("ACTIVE"))

\* lines 129-152: the image and its requirements, the flavor and the network
Resolve(srv, kps, imgs, calls, image_name, memory, cores, disk_space, fault) ==
    LET c2     == Append(calls, "find_image")
        c3     == Append(c2, "find_flavor")
        c4     == Append(c3, "find_network")
        found  == { i \in imgs : i.name = image_name }
        image  == CHOOSE i \in found : TRUE
        flavor_name == FlavorName(cores, memory, disk_space)
        fail(e, c) == Result(e, srv, kps, c, NoServer)
    IN  IF fault = "find_image" THEN fail(ProviderFault("find_image"), c2)
        ELSE IF found = {}
        THEN fail(PyError("AttributeError",
                          Msg("'NoneType' object has no attribute 'get'", <<>>)), c2)
        ELSE IF NotEnoughMemory(image, memory)
        THEN fail(InternalException(Msg("Not enough memory to run the selected image", <<>>),
                                    400), c2)
        ELSE IF NotEnoughDisk(image, disk_space)
        THEN fail(InternalException(Msg("Not enough disk space to run the selected image",
                                        <<>>), 400), c2)
        ELSE IF fault = "find_flavor" THEN fail(ProviderFault("find_flavor"), c3)
        ELSE IF flavor_name \notin Flavors
        THEN fail(InternalException(Msg("Flavor {} does not exist", flavor_name), 404), c3)
        ELSE IF fault = "find_network"
        THEN fail(InternalException(Msg("Could not find network {}", <<NetworkName>>), 404), c4)
        ELSE Result(NoExc, srv, kps, c4, NoServer)

\* lines 129-177: what _create_server does once the pre-check has passed
Provision(cfg, srv, kps, imgs, calls, pub_key, image_name, memory, cores, disk_space, key, fault) ==
    LET res == Resolve(srv, kps, imgs, calls, image_name, memory, cores, disk_space, fault)
    IN  IF res.exc # NoExc THEN res
        ELSE LET k == _create_keypair(srv, kps, res.calls, server_name_prefix \o key, pub_key,
                                      fault)
             IN  IF k.exc # NoExc THEN k
                 ELSE StartServer(cfg, k, key, fault)

\* lines 124-127: the pre-check over the servers of the project
PreCheck(srv, kps, calls, key, fault) ==
    LET c1 == Append(calls, "servers")
    IN  IF fault = "servers" THEN Result(ProviderFault("servers"), srv, kps, c1, NoServer)
        ELSE IF ServerExists(srv, key)
        THEN Result(InternalException(Msg("VM with key '{}' already exists", key), 400),
                    srv, kps, c1, NoServer)
        ELSE Result(NoExc, srv, kps, c1, NoServer)

_create_server(cfg, srv, kps, imgs, calls, pub_key, image_name, memory, cores, disk_space, key, fault) ==
    LET pre == PreCheck(srv, kps, calls, key, fault)
    IN  IF pre.exc # NoExc THEN pre
        ELSE Provision(cfg, srv, kps, imgs, pre.calls, pub_key, image_name, memory, cores,
                       disk_space, key, fault)

-----------------------------------------------------------------------------
(* _delete_server, lines 179-193, and _delete_keypair, lines 195-213 *)

\* (mutant) a server that is not found counts as a failed deletion
_delete_server_Strict(srv, kps, calls, server_name, fault) ==
    LET c1     == Append(calls, "find_server")
        c2     == Append(c1, "delete_server")
        found  == { s \in srv : s.name = server_name }
        failed == InternalException(Msg("Unable to delete server {}", server_name), 404)
    IN  IF fault = "find_server" \/ Cardinality(found) # 1
        THEN Result(failed, srv, kps, c1, NoServer)
        ELSE IF fault = "delete_server" THEN Result(failed, srv, kps, c2, NoServer)
        ELSE Result(NoExc, srv \ found, kps, c2, NoServer)

_delete_server(srv, kps, calls, server_name, fault) ==
    LET c1     == Append(calls, "find_server")
        c2     == Append(c1, "delete_server")
        found  == { s \in srv : s.name = server_name }
        failed == InternalException(Msg("Unable to delete server {}", server_name), 404)
    IN  IF fault = "find_server" \/ Cardinality(found) > 1
        THEN Result(failed, srv, kps, c1, NoServer)
        ELSE IF found = {} THEN Result(NoExc, srv, kps, c1, NoServer)
        ELSE IF fault = "delete_server" THEN Result(failed, srv, kps, c2, NoServer)
        ELSE Result(NoExc, srv \ found, kps, c2, NoServer)

\* (mutant) the keypair is looked up but never deleted
_delete_keypair_Kept(srv, kps, calls, keypair_name, fault) ==
    Result(NoExc, srv, kps, Append(calls, "find_keypair"), NoServer)

_delete_keypair(srv, kps, calls, keypair_name, fault) ==
    LET c1     == Append(calls, "find_keypair")
        c2     == Append(c1, "delete_keypair")
        found  == { k \in kps : k.name = keypair_name }
        failed == InternalException(Msg("Unable to delete keypair {}", keypair_name), 404)
    IN  IF fault = "find_keypair"
        THEN Result(failed, srv, kps, c1, NoServer)
        ELSE IF found = {} THEN Result(NoExc, srv, kps, c1, NoServer)
        ELSE IF fault = "delete_keypair" THEN Result(failed, srv, kps, c2, NoServer)
        ELSE Result(NoExc, srv, kps \ found, c2, NoServer)

-----------------------------------------------------------------------------
(* Responses: the (body, code) tuple an operation returns, or the exception *)
(* that leaves it.  calls are the provider calls the operation made, and    *)
(* internal is the InternalException raised inside it, if any.              *)

Response(code, status, error, ip_addresses, raised, calls, internal) ==
    [code |-> code, status |-> status, error |-> error, ip_addresses |-> ip_addresses,
     raised |-> raised, calls |-> calls, internal |-> internal]

\* return XResponseBody(error=...), code
Return(code, error, calls) == Response(code, None, error, <<>>, "none", calls, NoExc)

\* the exception e leaves the operation
Raise(e, calls, internal) == Response(0, None, e.message, <<>>, e.type, calls, internal)

\* the attributes an InternalException instance has (lines 18-20): args, set by
\* Exception.__init__, and code
InternalExceptionAttrs == {"args", "code"}

\* lines 314-317 and 364-367: except InternalException as e:
\*     return XResponseBody(error=e.message), e.code
\* An exception raised while the handler runs leaves the try statement: the
\* except Exception clause that follows belongs to the same try and does not see it.
OnInternalException(e, calls) ==
    IF "message" \in InternalExceptionAttrs
    THEN Response(e.code, None, e.message, <<>>, "none", calls, e)
    ELSE Raise(PyError("AttributeError",
                       Msg("'InternalException' object has no attribute 'message'", <<>>)),
               calls, e)

\* lines 318-321 and 368-371: except Exception as e: return XResponseBody(error=str(e)), 500
OnException(e, calls) == Return(500, e.message, calls)

\* how the try statement of create and destroy ends when its body raised e
Caught(e, calls) ==
    IF e.type = "InternalException" THEN OnInternalException(e, calls)
    ELSE OnException(e, calls)

\* what an operation does: the registry and the provider after it, and its response
Effect(cfg, srv, kps, resp) ==
    [configurations |-> cfg, servers |-> srv, keypairs |-> kps, resp |-> resp]

-----------------------------------------------------------------------------
(* Offerings *)

NoVmso == <<>>

\* offering.virtual_machine_service_offering: ram and boot_volume are the values
\* of to_unit("GByte") and cores the value of cpu.cores, each in halves
Vmso(ssh_keys, ram, cores, boot_volume) ==
    <<[ssh_keys |-> ssh_keys, ram |-> ram, cores |-> cores, boot_volume |-> boot_volume]>>

Offering(order_id, vmso) ==
    [order_id |-> order_id, virtual_machine_service_offering |-> vmso]

\* self.configurations.get(key.upper()): an entry is a non-empty dict, so it is
\* truthy exactly when the upper-cased key is in the registry
Configured(cfg, key) == Upper(key) \in DOMAIN cfg

-----------------------------------------------------------------------------
(* create, lines 271-329 *)

\* line 313: conn.add_auto_ip(server)
AddAutoIp(srv, server) ==
    (srv \ {server}) \cup
        {Server(server.id, server.name, server.status,
                Addresses({NetworkName}, <<FixedAddr, FloatingAddr>>))}

\* (mutant) the registry write is lost
Register_Skipped(cfg, key, server) == cfg

\* lines 323-327
Register(cfg, key, server) ==
    [k \in DOMAIN cfg \cup {key} |->
        IF k = key THEN [type |-> "vm", id |-> server.id] ELSE cfg[k]]

create(cfg, srv, kps, imgs, offering, fault) ==
    LET key  == Upper(offering.order_id)
        vmso == offering.virtual_machine_service_offering[1]
        c1   == <<"connect">>
        c2   == <<"connect", "authorize">>
        same(resp) == Effect(cfg, srv, kps, resp)
    IN  IF Configured(cfg, offering.order_id)
        THEN same(Return(400, Msg("VM with key '{}' already exists", offering.order_id), <<>>))
        ELSE IF offering.virtual_machine_service_offering = NoVmso
        THEN same(Return(400, Msg("This plugin can only provision VMs", <<>>), <<>>))
        ELSE IF fault = "connect" THEN same(Caught(ProviderFault("connect"), c1))
        ELSE IF fault = "authorize"
        THEN same(Return(401, Msg("There was a problem with authentication", <<>>), c2))
        ELSE IF vmso.ssh_keys = <<>>
        THEN same(Caught(PyError("IndexError", Msg("list index out of range", <<>>)), c2))
        ELSE LET r == _create_server(cfg, srv, kps, imgs, c2, vmso.ssh_keys[1], ImageName,
                                     Round(vmso.ram), Round(vmso.cores),
                                     Round(vmso.boot_volume), key, fault)
                 c3 == Append(r.calls, "add_auto_ip")
             IN  IF r.exc # NoExc
                 THEN Effect(cfg, r.servers, r.keypairs, Caught(r.exc, r.calls))
                 ELSE IF fault = "add_auto_ip"
                 THEN Effect(cfg, r.servers, r.keypairs,
                             Caught(ProviderFault("add_auto_ip"), c3))
                 ELSE Effect(Register(cfg, key, r.value),
                             AddAutoIp(r.servers, r.value), r.keypairs,
                             Return(201, NoMsg, c3))

-----------------------------------------------------------------------------
(* status, lines 215-269 *)

\* lines 245-247: server["addresses"][network][1]["addr"]; Python indexes from 0
HasPublicIp(server) ==
    /\ NetworkName \in DOMAIN server.addresses
    /\ Len(server.addresses[NetworkName]) >= 2

IpAddress(type, prefix, value) == [type |-> type, prefix |-> prefix, value |-> value]

\* (mutant) the provider state is mapped before the address is extracted
Normalize_StateFirst(server, calls) ==
    LET ip_addresses ==
            <<[type |-> "ipv4", prefix |-> "32",
               value |-> server.addresses[NetworkName][2].addr]>>
    IN  IF server.status \notin {"ACTIVE", "BUILDING"}
        THEN Response(200, "down", Msg("VM is currently in state: {}", <<server.status>>),
                      <<>>, "none", calls, NoExc)
        ELSE IF ~HasPublicIp(server)
        THEN Response(404, "down", Msg("Could not get the VM's public IP address", <<>>),
                      <<>>, "none", calls, NoExc)
        ELSE IF server.status = "ACTIVE"
        THEN Response(200, "up", NoMsg, ip_addresses, "none", calls, NoExc)
        ELSE Response(200, "preparing", NoMsg, ip_addresses, "none", calls, NoExc)

\* (mutant) the provider state is compared with "BUILD", not "BUILDING"
Normalize_Build(server, calls) ==
    LET ip_addresses ==
            <<[type |-> "ipv4", prefix |-> "32",
               value |-> server.addresses[NetworkName][2].addr]>>
    IN  IF ~HasPublicIp(server)
        THEN Response(404, "down", Msg("Could not get the VM's public IP address", <<>>),
                      <<>>, "none", calls, NoExc)
        ELSE IF server.status = "ACTIVE"
        THEN Response(200, "up", NoMsg, ip_addresses, "none", calls, NoExc)
        ELSE IF server.status = "BUILD"
        THEN Response(200, "preparing", NoMsg, ip_addresses, "none", calls, NoExc)
        ELSE Response(200, "down", Msg("VM is currently in state: {}", <<server.status>>),
                      <<>>, "none", calls, NoExc)

\* lines 243-267, once the server is fetched
Normalize(server, calls) ==
    LET ip_addresses ==
            <<IpAddress("ipv4", "32", server.addresses[NetworkName][2].addr)>>
    IN  IF ~HasPublicIp(server)
        THEN Response(404, "down", Msg("Could not get the VM's public IP address", <<>>),
                      <<>>, "none", calls, NoExc)
        ELSE IF server.status = "ACTIVE"
        THEN Response(200, "up", NoMsg, ip_addresses, "none", calls, NoExc)
        ELSE IF server.status = "BUILDING"
        THEN Response(200, "preparing", NoMsg, ip_addresses, "none", calls, NoExc)
        ELSE Response(200, "down", Msg("VM is currently in state: {}", <<server.status>>),
                      <<>>, "none", calls, NoExc)

status(cfg, srv, kps, key, fault) ==
    LET k     == Upper(key)
        c1    == <<"connect">>
        c2    == <<"connect", "authorize">>
        c3    == <<"connect", "authorize", "get_server">>
        found == { s \in srv : s.id = cfg[k].id }
        down(code, error, calls) ==
            Response(code, "down", error, <<>>, "none", calls, NoExc)
    IN  IF ~Configured(cfg, key)
        THEN Return(404, Msg("Unknown configuration '{}'", key), <<>>)
        ELSE IF fault = "connect" THEN Raise(ProviderFault("connect"), c1, NoExc)
        ELSE IF fault = "authorize"
        THEN down(401, Msg("There was a problem with authentication", <<>>), c2)
        ELSE IF fault = "get_server"
        THEN down(500, ProviderFault("get_server").message, c3)
        ELSE IF found = {}
        THEN down(500, Msg("No Server found for {}", <<ToString(cfg[k].id)>>), c3)
        ELSE Normalize(CHOOSE s \in found : TRUE, c3)

-----------------------------------------------------------------------------
(* destroy, lines 334-374 *)

\* line 372: self.configurations.pop(key.upper())
Pop(cfg, key) == [k \in DOMAIN cfg \ {key} |-> cfg[k]]

\* (mutant) the registry entry is removed however the delete steps ended
AfterDeletes_AlwaysPop(cfg, k, r) ==
    IF r.exc # NoExc
    THEN Effect([j \in DOMAIN cfg \ {k} |-> cfg[j]], r.servers, r.keypairs,
                Caught(r.exc, r.calls))
    ELSE Effect([j \in DOMAIN cfg \ {k} |-> cfg[j]], r.servers, r.keypairs,
                Return(204, NoMsg, r.calls))

\* lines 364-374: how destroy ends once the with block is left, r being the
\* result of the delete steps
AfterDeletes(cfg, k, r) ==
    IF r.exc # NoExc
    THEN Effect(cfg, r.servers, r.keypairs, Caught(r.exc, r.calls))
    ELSE Effect(Pop(cfg, k), r.servers, r.keypairs, Return(204, NoMsg, r.calls))

\* (mutant) a destroy that does not find the server fails
DeleteBoth_ServerNeeded(srv, kps, calls, name, fault) ==
    LET s == _delete_server_Strict(srv, kps, calls, name, fault)
    IN  IF s.exc # NoExc THEN s
        ELSE _delete_keypair(s.servers, s.keypairs, s.calls, name, fault)

\* lines 358-363: _delete_server, then _delete_keypair unless the first raised
DeleteBoth(srv, kps, calls, name, fault) ==
    LET s == _delete_server(srv, kps, calls, name, fault)
    IN  IF s.exc # NoExc THEN s
        ELSE _delete_keypair(s.servers, s.keypairs, s.calls, name, fault)

\* (mutant) destroy goes on to the delete steps when the authorize probe failed
DestroyKnown_Unauthorized(cfg, srv, kps, key, fault) ==
    LET k    == Upper(key)
        c1   == <<"connect">>
        c2   == <<"connect", "authorize">>
        same(resp) == Effect(cfg, srv, kps, resp)
    IN  IF fault = "connect" THEN same(Caught(ProviderFault("connect"), c1))
        ELSE AfterDeletes(cfg, k, DeleteBoth(srv, kps, c2, server_name_prefix \o k, "none"))

\* lines 340-374: destroy of a key the registry holds
DestroyKnown(cfg, srv, kps, key, fault) ==
    LET k    == Upper(key)
        c1   == <<"connect">>
        c2   == <<"connect", "authorize">>
        same(resp) == Effect(cfg, srv, kps, resp)
    IN  IF fault = "connect" THEN same(Caught(ProviderFault("connect"), c1))
        ELSE IF fault = "authorize"
        THEN same(Return(401, Msg("There was a problem with authentication", <<>>), c2))
        ELSE AfterDeletes(cfg, k, DeleteBoth(srv, kps, c2, server_name_prefix \o k, fault))

\* (mutant) destroy without the registry check of lines 337-338
destroy_Unchecked(cfg, srv, kps, key, fault) == DestroyKnown(cfg, srv, kps, key, fault)

destroy(cfg, srv, kps, key, fault) ==
    IF ~Configured(cfg, key)
    THEN Effect(cfg, srv, kps, Return(404, Msg("Unknown configuration '{}'", key), <<>>))
    ELSE DestroyKnown(cfg, srv, kps, key, fault)

-----------------------------------------------------------------------------
(* Inputs *)

PubKey == "ssh-ed25519 AAAA"

Offerings ==
    { Offering(k, NoVmso) : k \in OrderIds }
    \cup { Offering(k, Vmso(<<>>, 5, 2, 40)) : k \in OrderIds }
    \cup { Offering(k, Vmso(<<PubKey>>, ram, cores, disk)) :
              k \in OrderIds, ram \in {2, 5}, cores \in {2, 4}, disk \in {20, 40} }

NoOffering == Offering(<<>>, NoVmso)

\* the provider call at which a fault strikes; a call faults at most once per
\* operation, since the operation ends there
FaultCall(fault) == IF fault = "find_keypair_dup" THEN "find_keypair" ELSE fault

CreateFaults ==
    {"connect", "authorize", "servers", "find_image", "find_flavor", "find_network",
     "find_keypair", "find_keypair_dup", "create_keypair", "create_server",
     "wait_for_server", "add_auto_ip"}

StatusFaults == {"connect", "authorize", "get_server"}

DestroyFaults ==
    {"connect", "authorize", "find_server", "delete_server", "find_keypair", "delete_keypair"}

\* the provider faults at a call the operation makes, or not at all
Strikes(fault, resp) == fault = "none" \/ Called(resp.calls, FaultCall(fault))

-----------------------------------------------------------------------------
(* History *)

Last(op, key, offering, fault, resp) ==
    [op |-> op, key |-> key, offering |-> offering, fault |-> fault, resp |-> resp]

NoCall == Last("none", <<>>, NoOffering, "none", Return(0, NoMsg, <<>>))

\* the keys whose last successful create-or-destroy was a create
Succeeded(done, op, key, resp) ==
    IF op = "create" /\ resp.raised = "none" /\ resp.code = 201 THEN done \cup {Upper(key)}
    ELSE IF op = "destroy" /\ resp.raised = "none" /\ resp.code = 204 THEN done \ {Upper(key)}
    ELSE done

\* Runs of consecutive calls, nothing else happening in between:
\*   "created"   create(o) returned 201 and met no fault
\*   "destroyed" then destroy of o's key, no fault
\*   "queried"   then status of o's key, no fault
\*   "recreated" then create(o) again, no fault
\*   "repeated"  create(o) directly after "created" or "recreated"
\*   "restarted" the process restarted directly after "created"
\*   "repeated after restart" then create(o) again, no fault
\*   "failed"    destroy of a registered key in which a delete step raised
\*   "retried"   then destroy of the same key, no fault
Run(stage, offering) == [stage |-> stage, offering |-> offering]

NoRun == Run("none", NoOffering)

RunNext(run, op, key, offering, fault, resp) ==
    LET sameKey   == Upper(key) = Upper(run.offering.order_id)
        fresh     == IF op = "create" /\ fault = "none" /\ resp.raised = "none"
                        /\ resp.code = 201
                     THEN Run("created", offering) ELSE NoRun
    IN  CASE op = "restart" /\ run.stage = "created" -> Run("restarted", run.offering)
          [] op = "destroy" /\ run.stage \in {"created", "recreated"} /\ sameKey
                /\ fault = "none" /\ last.resp.code = 201
             -> Run("destroyed", run.offering)
          [] op = "status" /\ run.stage = "destroyed" /\ sameKey /\ fault = "none"
             -> Run("queried", run.offering)
          [] op = "create" /\ run.stage \in {"destroyed", "queried"}
                /\ offering = run.offering /\ fault = "none"
             -> Run("recreated", run.offering)
          [] op = "create" /\ run.stage \in {"created", "recreated"}
                /\ offering = run.offering /\ last.resp.code = 201
             -> Run("repeated", run.offering)
          [] op = "create" /\ run.stage = "restarted"
                /\ offering = run.offering /\ fault = "none"
             -> Run("repeated after restart", run.offering)
          [] op = "destroy" /\ run.stage = "failed" /\ sameKey /\ fault = "none"
             -> Run("retried", run.offering)
          [] op = "destroy" /\ fault # "none" /\ resp.internal # NoExc
             -> Run("failed", Offering(Upper(key), NoVmso))
          [] OTHER -> fresh

-----------------------------------------------------------------------------
(* Concurrent callers *)

\* two callers, each in at most one call at a time
Callers == {"c1", "c2"}

\* where a caller is: pc names the line of plugin.py it executes next, server
\* is the local variable of create, calls the provider calls made so far;
\* raced (history) tells that its create passed the checks together with the
\* other caller's create of the same key, before either requested its server
Thread(pc, op, key, offering, server, calls, resp, raced) ==
    [pc |-> pc, op |-> op, key |-> key, offering |-> offering, server |-> server,
     calls |-> calls, resp |-> resp, raced |-> raced]

Idle == Thread("idle", "none", <<>>, NoOffering, NoServer, <<>>, Return(0, NoMsg, <<>>), FALSE)

-----------------------------------------------------------------------------
(* The orchestrator's calls *)

Init ==
    /\ configurations = [k \in {} |-> [type |-> "vm", id |-> NoId]]
    /\ servers = {}
    /\ keypairs = {}
    /\ images \in {{TheImage}, {}}
    /\ last = NoCall
    /\ succeeded = {}
    /\ rt = NoRun
    /\ threads = [p \in Callers |-> Idle]

\* a call that starts a server needs an unused id of the model
Call(op, key, offering, fault, e) ==
    /\ Strikes(fault, e.resp)
    /\ \A s \in e.servers : s.id \in Ids
    /\ configurations' = e.configurations
    /\ servers' = e.servers
    /\ keypairs' = e.keypairs
    /\ last' = Last(op, key, offering, fault, e.resp)
    /\ succeeded' = Succeeded(succeeded, op, key, e.resp)
    /\ rt' = RunNext(rt, op, key, offering, fault, e.resp)
    /\ UNCHANGED <<images, threads>>

Create(offering, fault) ==
    Call("create", offering.order_id, offering, fault,
         create(configurations, servers, keypairs, images, offering, fault))

\* (mutant) a status of the key just queried answers from the earlier result
Status_Cached(key, fault) ==
    Call("status", key, NoOffering, fault,
            Effect(configurations, servers, keypairs,
                   IF last.op = "status" /\ last.key = key THEN last.resp
                   ELSE status(configurations, servers, keypairs, key, fault)))

Status(key, fault) ==
    Call("status", key, NoOffering, fault,
            Effect(configurations, servers, keypairs,
                   status(configurations, servers, keypairs, key, fault)))

Destroy(key, fault) ==
    Call("destroy", key, NoOffering, fault,
            destroy(configurations, servers, keypairs, key, fault))

-----------------------------------------------------------------------------
(* What happens outside the plugin *)

Outside(op) ==
    /\ last' = Last(op, <<>>, NoOffering, "none", Return(0, NoMsg, <<>>))
    /\ rt' = RunNext(rt, op, <<>>, NoOffering, "none", Return(0, NoMsg, <<>>))
    /\ UNCHANGED <<succeeded, images, threads>>

\* a server is removed on the provider, not through the plugin
ProviderRemoveServer(s) ==
    /\ s \in servers
    /\ servers' = servers \ {s}
    /\ UNCHANGED <<configurations, keypairs>>
    /\ Outside("provider")

\* a keypair is removed on the provider, not through the plugin
ProviderRemoveKeypair(k) ==
    /\ k \in keypairs
    /\ keypairs' = keypairs \ {k}
    /\ UNCHANGED <<configurations, servers>>
    /\ Outside("provider")

\* the provider reports another state or other addresses for a server
ProviderChangeServer(s, st, addresses) ==
    /\ s \in servers
    /\ Server(s.id, s.name, st, addresses) # s
    /\ servers' = (servers \ {s}) \cup {Server(s.id, s.name, st, addresses)}
    /\ UNCHANGED <<configurations, keypairs>>
    /\ Outside("provider")

\* the process restarts: __init__ (line 52) starts from an empty registry
Restart ==
    /\ configurations' = [k \in {} |-> [type |-> "vm", id |-> NoId]]
    /\ UNCHANGED <<servers, keypairs>>
    /\ Outside("restart")

Calls(offerings) ==
    \/ \E o \in offerings, f \in CreateFaults \cup {"none"} : Create(o, f)
    \/ \E k \in InputKeys, f \in StatusFaults \cup {"none"} : Status(k, f)
    \/ \E k \in InputKeys, f \in DestroyFaults \cup {"none"} : Destroy(k, f)

Removals ==
    \/ \E s \in servers : ProviderRemoveServer(s)
    \/ \E k \in keypairs : ProviderRemoveKeypair(k)

Changes ==
    \E s \in servers, st \in Statuses, a \in AddressMaps : ProviderChangeServer(s, st, a)

Next == Calls(Offerings) \/ Removals

Spec == Init /\ [][Next]_vars

\* the offerings the provider can serve
Servable == { o \in Offerings :
                /\ o.virtual_machine_service_offering # NoVmso
                /\ o.virtual_machine_service_offering[1].ssh_keys # <<>>
                /\ ~NotEnoughMemory(TheImage, Round(o.virtual_machine_service_offering[1].ram))
                /\ ~NotEnoughDisk(TheImage,
                                  Round(o.virtual_machine_service_offering[1].boot_volume))
                /\ FlavorName(Round(o.virtual_machine_service_offering[1].cores),
                              Round(o.virtual_machine_service_offering[1].ram),
                              Round(o.virtual_machine_service_offering[1].boot_volume))
                      \in Flavors }

NextStatus == Calls(Servable) \/ Removals \/ Changes

SpecStatus == Init /\ [][NextStatus]_vars

NextRestart == Calls(Servable) \/ Removals \/ Restart

SpecRestart == Init /\ [][NextRestart]_vars

\* another public key, as a caller sends it when it orders the same key again
OtherPubKey == "ssh-rsa BBBB"

\* the servable offerings, ordered with the other public key
Reissued == { Offering(k, Vmso(<<OtherPubKey>>, 5, 2, 40)) : k \in OrderIds }

NextKeys == Calls(Servable \cup Reissued) \/ Removals

SpecKeys == Init /\ [][NextKeys]_vars

\* The caller keeps retrying destroy and the provider stops faulting: a
\* fault-free destroy of each key is not put off forever
NextRetry ==
    \/ \E o \in Servable, f \in {"none", "add_auto_ip"} : Create(o, f)
    \/ \E k \in InputKeys, f \in DestroyFaults \cup {"none"} : Destroy(k, f)
    \/ Removals

SpecRetry ==
    Init /\ [][NextRetry]_vars /\ \A k \in InputKeys : WF_vars(Destroy(k, "none"))

-----------------------------------------------------------------------------
(* create and destroy called concurrently, the provider not faulting: a call   *)
(* is a sequence of steps, each one access to the registry or one provider     *)
(* call on the servers or keypairs, and the steps of the two callers interleave *)

\* the caller p moves on to pc, or ends its call with resp when pc is "done"
Goto(p, t, pc, server, calls, resp) ==
    threads' = [threads EXCEPT
                   ![p] = Thread(pc, t.op, t.key, t.offering, server, calls, resp, t.raced)]

Done(p, t, resp) == Goto(p, t, "done", t.server, resp.calls, resp)

\* lines 274-283: the registry check and the VM check of create
CreateEnter(p, o) ==
    LET t == Thread("idle", "create", o.order_id, o, NoServer, <<>>, Return(0, NoMsg, <<>>),
                    FALSE)
    IN  /\ threads[p].pc = "idle"
        /\ IF Configured(configurations, o.order_id)
           THEN Done(p, t, Return(400, Msg("VM with key '{}' already exists", o.order_id), <<>>))
           ELSE IF o.virtual_machine_service_offering = NoVmso
           THEN Done(p, t, Return(400, Msg("This plugin can only provision VMs", <<>>), <<>>))
           ELSE Goto(p, t, "286", NoServer, <<>>, t.resp)
        /\ UNCHANGED <<configurations, servers, keypairs, images, last, succeeded, rt>>

\* the caller q has passed the checks of a create of the key p creates and
\* has not requested its server yet
Racing(q, p) ==
    /\ q # p
    /\ threads[q].op = "create" /\ threads[q].pc \in {"129", "92", "164"}
    /\ Upper(threads[q].key) = Upper(threads[p].key)

\* lines 286-312 and 124-127: session, authorize, and the pre-check
CreatePreCheck(p) ==
    LET t    == threads[p]
        vmso == t.offering.virtual_machine_service_offering[1]
        c2   == <<"connect", "authorize">>
        pre  == PreCheck(servers, keypairs, c2, Upper(t.key), "none")
    IN  /\ t.pc = "286"
        /\ IF vmso.ssh_keys = <<>>
           THEN Done(p, t, Caught(PyError("IndexError", Msg("list index out of range", <<>>)), c2))
           ELSE IF pre.exc # NoExc THEN Done(p, t, Caught(pre.exc, pre.calls))
           ELSE threads' =
                  [q \in Callers |->
                     IF q = p
                     THEN Thread("129", t.op, t.key, t.offering, NoServer, pre.calls, t.resp,
                                 \E r \in Callers : Racing(r, p))
                     ELSE IF Racing(q, p)
                     THEN [threads[q] EXCEPT !.raced = TRUE]
                     ELSE threads[q]]
        /\ UNCHANGED <<configurations, servers, keypairs, images, last, succeeded, rt>>

\* lines 129-152 and 81-82: image, flavor and network, then find_keypair; the
\* keypair is created (line 92) only when none was found (line 90)
CreateResolve(p) ==
    LET t    == threads[p]
        vmso == t.offering.virtual_machine_service_offering[1]
        res  == Resolve(servers, keypairs, images, t.calls, ImageName, Round(vmso.ram),
                        Round(vmso.cores), Round(vmso.boot_volume), "none")
        c5   == Append(res.calls, "find_keypair")
    IN  /\ t.pc = "129"
        /\ IF res.exc # NoExc THEN Done(p, t, Caught(res.exc, res.calls))
           ELSE IF Named(keypairs, Upper(t.key)) # {} THEN Goto(p, t, "164", NoServer, c5, t.resp)
           ELSE Goto(p, t, "92", NoServer, c5, t.resp)
        /\ UNCHANGED <<configurations, servers, keypairs, images, last, succeeded, rt>>

\* lines 91-99: create_keypair; the provider refuses a name that is taken, and
\* whatever create_keypair raises becomes the invalid-key failure
CreateKeypair(p) ==
    LET t    == threads[p]
        vmso == t.offering.virtual_machine_service_offering[1]
        c6   == Append(t.calls, "create_keypair")
        name == server_name_prefix \o Upper(t.key)
    IN  /\ t.pc = "92"
        /\ IF Named(keypairs, Upper(t.key)) # {}
           THEN /\ keypairs' = keypairs
                /\ Done(p, t, Caught(InternalException(
                                        Msg("The provided public key data is invalid", <<>>),
                                        400), c6))
           ELSE /\ keypairs' = keypairs \cup {Keypair(name, vmso.ssh_keys[1])}
                /\ Goto(p, t, "164", NoServer, c6, t.resp)
        /\ UNCHANGED <<configurations, servers, images, last, succeeded, rt>>

\* the ids a caller holds in its local variable server
HeldIds == { threads[p].server.id : p \in Callers }

\* the id the provider gives a new server: one that neither a server, nor the
\* registry, nor a caller holds; NoId when the ids of the model are used up
NewId ==
    LET free == Ids \ (UsedIds(configurations, servers) \cup HeldIds)
    IN  IF free = {} THEN NoId ELSE CHOOSE i \in free : \A j \in free : i <= j

\* lines 164-171: create_server; the new server is not ACTIVE yet
CreateServer(p) ==
    LET t   == threads[p]
        new == Server(NewId, server_name_prefix \o Upper(t.key), "BUILDING",
                      Addresses({NetworkName}, <<FixedAddr>>))
    IN  /\ t.pc = "164"
        /\ NewId \in Ids
        /\ servers' = servers \cup {new}
        /\ Goto(p, t, "172", new, Append(t.calls, "create_server"), t.resp)
        /\ UNCHANGED <<configurations, keypairs, images, last, succeeded, rt>>

\* lines 172-175: wait_for_server(server, status="ACTIVE") returns the server
\* once it is ACTIVE; any failure becomes "Unable to create server"
CreateWait(p) ==
    LET t      == threads[p]
        c      == Append(t.calls, "wait_for_server")
        mine   == { s \in servers : s.id = t.server.id }
        active == Server(t.server.id, t.server.name, "ACTIVE", t.server.addresses)
    IN  /\ t.pc = "172"
        /\ IF mine # {}
           THEN /\ servers' = (servers \ mine) \cup {active}
                /\ Goto(p, t, "313", active, c, t.resp)
           ELSE /\ servers' = servers
                /\ Done(p, t, Caught(InternalException(Msg("Unable to create server", <<>>),
                                                       400), c))
        /\ UNCHANGED <<configurations, keypairs, images, last, succeeded, rt>>

\* line 313: conn.add_auto_ip(server); it raises when the server is gone
CreateAddAutoIp(p) ==
    LET t  == threads[p]
        c3 == Append(t.calls, "add_auto_ip")
    IN  /\ t.pc = "313"
        /\ IF t.server \in servers
           THEN /\ servers' = AddAutoIp(servers, t.server)
                /\ Goto(p, t, "323", t.server, c3, t.resp)
           ELSE /\ servers' = servers
                /\ Done(p, t, Caught(ProviderFault("add_auto_ip"), c3))
        /\ UNCHANGED <<configurations, keypairs, images, last, succeeded, rt>>

\* (mutant) the registry is checked again before it is written
CreateRegister_Checked(p) ==
    LET t == threads[p]
    IN  /\ t.pc = "323"
        /\ IF Upper(t.key) \in DOMAIN configurations
           THEN /\ configurations' = configurations
                /\ Done(p, t, Return(400, Msg("VM with key '{}' already exists", t.key),
                                     t.calls))
           ELSE /\ configurations' = Register(configurations, Upper(t.key), t.server)
                /\ Done(p, t, Return(201, NoMsg, t.calls))
        /\ UNCHANGED <<servers, keypairs, images, last, succeeded, rt>>

\* lines 323-329: the registry write and the 201
CreateRegister(p) ==
    LET t == threads[p]
    IN  /\ t.pc = "323"
        /\ configurations' = Register(configurations, Upper(t.key), t.server)
        /\ Done(p, t, Return(201, NoMsg, t.calls))
        /\ UNCHANGED <<servers, keypairs, images, last, succeeded, rt>>

\* lines 337-338: the registry check of destroy
DestroyEnter(p, key) ==
    LET t == Thread("idle", "destroy", key, NoOffering, NoServer, <<>>, Return(0, NoMsg, <<>>),
                    FALSE)
    IN  /\ threads[p].pc = "idle"
        /\ IF ~Configured(configurations, key)
           THEN Done(p, t, Return(404, Msg("Unknown configuration '{}'", key), <<>>))
           ELSE Goto(p, t, "340", NoServer, <<>>, t.resp)
        /\ UNCHANGED <<configurations, servers, keypairs, images, last, succeeded, rt>>

\* lines 340-357 and 185-187: session, authorize, and find_server by name; a
\* name that several servers have makes find_server raise, which line 190
\* turns into the deletion failure
DestroyFindServer(p) ==
    LET t     == threads[p]
        c3    == <<"connect", "authorize", "find_server">>
        found == Named(servers, Upper(t.key))
    IN  /\ t.pc = "340"
        /\ IF Cardinality(found) > 1
           THEN Done(p, t, Caught(InternalException(
                                     Msg("Unable to delete server {}",
                                         server_name_prefix \o Upper(t.key)), 404), c3))
           ELSE IF found = {} THEN Goto(p, t, "206", NoServer, c3, t.resp)
           ELSE Goto(p, t, "188", CHOOSE s \in found : TRUE, c3, t.resp)
        /\ UNCHANGED <<configurations, servers, keypairs, images, last, succeeded, rt>>

\* line 188: delete_server(server) deletes the server that was found; a server
\* that is gone by now is passed over (ignore_missing is True by default)
DestroyDeleteServer(p) ==
    LET t == threads[p]
    IN  /\ t.pc = "188"
        /\ servers' = { s \in servers : s.id # t.server.id }
        /\ Goto(p, t, "206", NoServer, Append(t.calls, "delete_server"), t.resp)
        /\ UNCHANGED <<configurations, keypairs, images, last, succeeded, rt>>

\* lines 205-207: find_keypair by name
DestroyFindKeypair(p) ==
    LET t  == threads[p]
        c  == Append(t.calls, "find_keypair")
    IN  /\ t.pc = "206"
        /\ IF Named(keypairs, Upper(t.key)) = {} THEN Goto(p, t, "372", NoServer, c, t.resp)
           ELSE Goto(p, t, "208", NoServer, c, t.resp)
        /\ UNCHANGED <<configurations, servers, keypairs, images, last, succeeded, rt>>

\* line 208: delete_keypair(keypair) deletes the keypair of that name; one
\* that is gone by now is passed over
DestroyDeleteKeypair(p) ==
    LET t == threads[p]
    IN  /\ t.pc = "208"
        /\ keypairs' = keypairs \ Named(keypairs, Upper(t.key))
        /\ Goto(p, t, "372", NoServer, Append(t.calls, "delete_keypair"), t.resp)
        /\ UNCHANGED <<configurations, servers, images, last, succeeded, rt>>

\* lines 372-374: self.configurations.pop(key.upper()), outside the try
\* statement: dict.pop without a default raises KeyError for a missing key
DestroyPop(p) ==
    LET t == threads[p]
    IN  /\ t.pc = "372"
        /\ IF Upper(t.key) \in DOMAIN configurations
           THEN /\ configurations' = Pop(configurations, Upper(t.key))
                /\ Done(p, t, Return(204, NoMsg, t.calls))
           ELSE /\ configurations' = configurations
                /\ Done(p, t, Raise(PyError("KeyError", Msg("'{}'", Upper(t.key))),
                                    t.calls, NoExc))
        /\ UNCHANGED <<servers, keypairs, images, last, succeeded, rt>>

\* the caller has its response and is free for its next call
Respond(p) ==
    /\ threads[p].pc = "done"
    /\ threads' = [threads EXCEPT ![p] = Idle]
    /\ UNCHANGED <<configurations, servers, keypairs, images, last, succeeded, rt>>

NextConcurrent ==
    \E p \in Callers :
        \/ \E o \in Servable : CreateEnter(p, o)
        \/ CreatePreCheck(p)
        \/ CreateResolve(p)
        \/ CreateKeypair(p)
        \/ CreateServer(p)
        \/ CreateWait(p)
        \/ CreateAddAutoIp(p)
        \/ CreateRegister(p)
        \/ \E k \in InputKeys : DestroyEnter(p, k)
        \/ DestroyFindServer(p)
        \/ DestroyDeleteServer(p)
        \/ DestroyFindKeypair(p)
        \/ DestroyDeleteKeypair(p)
        \/ DestroyPop(p)
        \/ Respond(p)

SpecConcurrent == Init /\ [][NextConcurrent]_vars

-----------------------------------------------------------------------------
(* Properties *)

Key == Upper(last.key)

Ok(resp, code) == resp.raised = "none" /\ resp.code = code

\* C1: without restarts, the registry holds exactly the upper-cased keys whose
\* last successful create-or-destroy was a create (201 and no 204 since), so a
\* create that fails at whatever step leaves no entry (a create rejected for a
\* key the registry holds leaves that entry as it is); the registry is a
\* mapping, one entry per key.
C1_RegistryIffCreated ==
    /\ DOMAIN configurations = succeeded
    /\ \A k \in DOMAIN configurations : Upper(k) = k /\ configurations[k].type = "vm"
    /\ (last.op = "create" /\ ~Ok(last.resp, 201)
            /\ last.resp.error # Msg("VM with key '{}' already exists", last.key))
        => Key \notin DOMAIN configurations

\* a create failed at the last step, the floating IP, after the server was
\* made, while another key is registered
C1_Witness ==
    /\ last.op = "create" /\ last.fault = "add_auto_ip"
    /\ Named(servers, Key) # {}
    /\ Key \notin DOMAIN configurations
    /\ DOMAIN configurations # {}

\* C2: status and destroy of a key the registry does not hold return 404
\* (unknown configuration), make no provider call, not even opening a session,
\* and change neither the registry nor the provider.
C2_UnknownKey ==
    [][ (last'.op \in {"status", "destroy"} /\ Upper(last'.key) \notin DOMAIN configurations)
        => /\ Ok(last'.resp, 404)
           /\ last'.resp.error = Msg("Unknown configuration '{}'", last'.key)
           /\ last'.resp.calls = <<>>
           /\ UNCHANGED <<configurations, servers, keypairs, images>> ]_vars

\* status of a key that was created and then destroyed
C2_Witness ==
    /\ rt.stage = "queried"
    /\ last.op = "status" /\ last.resp.code = 404
    /\ servers # {}

\* C3: create(o) succeeding, then destroy and status of its key and create(o)
\* again, consecutively and fault-free: the destroy returns 204 and leaves no
\* registry entry, no server and no keypair named after the key, the status
\* returns 404, and the second create returns 201 and registers the key again.
C3_RoundTrip ==
    LET key == Upper(rt.offering.order_id)
    IN  /\ rt.stage = "destroyed" =>
            /\ last.op = "destroy" /\ Ok(last.resp, 204)
            /\ key \notin DOMAIN configurations
            /\ Named(servers, key) = {}
            /\ Named(keypairs, key) = {}
        /\ rt.stage = "queried" =>
            /\ last.op = "status" /\ Ok(last.resp, 404)
            /\ key \notin DOMAIN configurations
            /\ Named(servers, key) = {}
            /\ Named(keypairs, key) = {}
        /\ rt.stage = "recreated" =>
            /\ last.op = "create" /\ Ok(last.resp, 201)
            /\ key \in DOMAIN configurations
            /\ \E s \in Named(servers, key) : s.id = configurations[key].id

\* the whole round trip has been made
C3_Witness ==
    /\ rt.stage = "recreated"
    /\ last.op = "create" /\ last.resp.code = 201

\* C4: create(o) directly after a create(o) that returned 201 returns 400
\* (duplicate order) and asks the provider for no further server, whether the
\* registry still holds the key or the process restarted in between and the
\* provider still has the server.
C4_CreateTwice ==
    rt.stage \in {"repeated", "repeated after restart"} =>
        /\ last.op = "create" /\ Ok(last.resp, 400)
        /\ ~Called(last.resp.calls, "create_server")

\* C5: a classified failure (an InternalException raised inside create or
\* destroy) reaches the caller as a returned response with that failure's code
\* and message; the operation does not raise.
C5_ClassifiedReturned ==
    last.resp.internal # NoExc =>
        /\ last.resp.raised = "none"
        /\ last.resp.code = last.resp.internal.code
        /\ last.resp.error = last.resp.internal.message

\* the request _create_server gets for an offering of a VM
Requested(o) ==
    LET vmso == o.virtual_machine_service_offering[1]
    IN  [memory |-> Round(vmso.ram), cores |-> Round(vmso.cores),
         disk_space |-> Round(vmso.boot_volume)]

Insufficient(o) ==
    /\ o.virtual_machine_service_offering # NoVmso
    /\ \E i \in images :
          /\ i.name = ImageName
          /\ \/ i.min_ram > 1000 * Requested(o).memory
             \/ i.min_disk > Requested(o).disk_space

NoFlavor(o) ==
    /\ o.virtual_machine_service_offering # NoVmso
    /\ FlavorName(Requested(o).cores, Requested(o).memory, Requested(o).disk_space)
          \notin Flavors

InsufficientMessages ==
    { Msg("Not enough memory to run the selected image", <<>>),
      Msg("Not enough disk space to run the selected image", <<>>) }

\* C6: a create whose offering asks for less memory or disk than the image
\* needs, or for a flavor that does not exist, or that does not find the
\* network, fails and changes neither the provider (keypairs, servers,
\* addresses) nor the registry; when the image is looked up and does not fit,
\* the response is the 400 of the image check, whether or not the flavor exists.
C6_ResolutionFirst ==
    [][ (last'.op = "create"
         /\ (Insufficient(last'.offering) \/ NoFlavor(last'.offering)
             \/ last'.fault = "find_network"))
        => /\ ~Ok(last'.resp, 201)
           /\ UNCHANGED <<configurations, servers, keypairs>>
           /\ (Insufficient(last'.offering) /\ Called(last'.resp.calls, "find_image")
               /\ last'.fault = "none")
              => /\ Ok(last'.resp, 400)
                 /\ last'.resp.error \in InsufficientMessages ]_vars

\* C6, as far as the code goes: the same create changes nothing, and the
\* failure raised inside it is the one of the image check, before any flavor
\* lookup.
C6_NoMutationBeforeResolution ==
    [][ (last'.op = "create"
         /\ (Insufficient(last'.offering) \/ NoFlavor(last'.offering)
             \/ last'.fault = "find_network"))
        => /\ ~Ok(last'.resp, 201)
           /\ UNCHANGED <<configurations, servers, keypairs>>
           /\ (Insufficient(last'.offering) /\ Called(last'.resp.calls, "find_image")
               /\ last'.fault = "none")
              => /\ last'.resp.internal.code = 400
                 /\ last'.resp.internal.message \in InsufficientMessages
                 /\ ~Called(last'.resp.calls, "find_flavor") ]_vars

\* C7: a destroy of a registered key removes the entry only when it returns
\* 204, after the server step and the keypair step both ended without raising;
\* when authentication fails or a delete step raises, the registry is exactly
\* what it was, also when the server is already gone and the keypair step failed.
C7_EntryKeptOnFailure ==
    [][ (last'.op = "destroy" /\ Upper(last'.key) \in DOMAIN configurations)
        => IF Ok(last'.resp, 204)
           THEN /\ Called(last'.resp.calls, "find_server")
                /\ Called(last'.resp.calls, "find_keypair")
                /\ last'.fault = "none" /\ last'.resp.internal = NoExc
                /\ DOMAIN configurations' = DOMAIN configurations \ {Upper(last'.key)}
                /\ \A k \in DOMAIN configurations' : configurations'[k] = configurations[k]
           ELSE configurations' = configurations ]_vars

\* the server was deleted, the keypair deletion failed, the entry is still there
C7_Witness ==
    /\ last.op = "destroy" /\ last.fault \in {"find_keypair", "delete_keypair"}
    /\ Called(last.resp.calls, "delete_server")
    /\ Named(servers, Key) = {}
    /\ Named(keypairs, Key) # {}
    /\ Key \in DOMAIN configurations

\* C8: a fault-free destroy of a registered key whose server or keypair is no
\* longer on the provider returns 204 and removes the entry; no delete call is
\* made for the resource that is missing.
C8_MissingIsSuccess ==
    [][ (/\ last'.op = "destroy" /\ last'.fault = "none"
         /\ Upper(last'.key) \in DOMAIN configurations
         /\ \/ Named(servers, Upper(last'.key)) = {}
            \/ Named(keypairs, Upper(last'.key)) = {})
        => /\ Ok(last'.resp, 204)
           /\ Upper(last'.key) \notin DOMAIN configurations'
           /\ Named(servers, Upper(last'.key)) = {}
                 => ~Called(last'.resp.calls, "delete_server") /\ servers' = servers
           /\ Named(keypairs, Upper(last'.key)) = {}
                 => ~Called(last'.resp.calls, "delete_keypair") /\ keypairs' = keypairs
           /\ Named(servers', Upper(last'.key)) = {}
           /\ Named(keypairs', Upper(last'.key)) = {} ]_vars

\* the server had been removed on the provider; destroy deleted the keypair only
C8_Witness ==
    /\ last.op = "destroy" /\ Ok(last.resp, 204)
    /\ ~Called(last.resp.calls, "delete_server")
    /\ Called(last.resp.calls, "delete_keypair")
    /\ Key \notin DOMAIN configurations

\* the last call was a status of a registered key that met no fault and
\* fetched the server s
Fetched(s) ==
    /\ last.op = "status" /\ last.fault = "none"
    /\ Key \in DOMAIN configurations
    /\ s \in servers /\ s.id = configurations[Key].id

SecondAddress(s) ==
    /\ NetworkName \in DOMAIN s.addresses
    /\ Len(s.addresses[NetworkName]) >= 2

\* C9: a status that fetched a server with a second address under the project
\* network returns 200: "up" with that address for ACTIVE, "preparing" with
\* that address for BUILDING, and "down" with the provider state in the error
\* for any other state.
C9_StatusMapping ==
    \A s \in servers : (Fetched(s) /\ SecondAddress(s)) =>
        LET ip == <<[type |-> "ipv4", prefix |-> "32",
                     value |-> s.addresses[NetworkName][2].addr]>>
        IN  /\ Ok(last.resp, 200)
            /\ s.status = "ACTIVE" =>
                  /\ last.resp.status = "up" /\ last.resp.ip_addresses = ip
                  /\ last.resp.error = NoMsg
            /\ s.status = "BUILDING" =>
                  /\ last.resp.status = "preparing" /\ last.resp.ip_addresses = ip
                  /\ last.resp.error = NoMsg
            /\ s.status \notin {"ACTIVE", "BUILDING"} =>
                  /\ last.resp.status = "down" /\ last.resp.ip_addresses = <<>>
                  /\ last.resp.error = Msg("VM is currently in state: {}", <<s.status>>)

\* a status of a server the provider reports as BUILDING
C9_Witness ==
    \E s \in servers :
        /\ Fetched(s) /\ SecondAddress(s)
        /\ s.status = "BUILDING"
        /\ last.resp.status = "preparing"

\* C10: a status that fetched a server without a second address under the
\* project network (no such network in the address map, or fewer than two
\* entries) returns 404 "down" with the IP error, whatever the provider state;
\* it does not raise, and no status is "up" or "preparing" without addresses.
C10_NoPublicIp ==
    /\ \A s \in servers : (Fetched(s) /\ ~SecondAddress(s)) =>
          /\ Ok(last.resp, 404)
          /\ last.resp.status = "down"
          /\ last.resp.error = Msg("Could not get the VM's public IP address", <<>>)
          /\ last.resp.ip_addresses = <<>>
    /\ (last.op = "status" /\ last.resp.status \in {"up", "preparing"})
          => last.resp.ip_addresses # <<>>

\* a status of an ACTIVE server whose address map lacks the project network
C10_Witness ==
    \E s \in servers :
        /\ Fetched(s)
        /\ s.status = "ACTIVE"
        /\ NetworkName \notin DOMAIN s.addresses
        /\ last.resp.code = 404

\* the provider calls of each operation at which a fault of the provider layer
\* is not one the text classifies (network, keypair creation and server
\* creation have failures of their own)
UnclassifiedPoints(op) ==
    CASE op = "create"  -> {"connect", "servers", "find_image", "find_flavor",
                            "find_keypair", "add_auto_ip"}
      [] op = "status"  -> {"connect", "get_server"}
      [] op = "destroy" -> {"connect", "find_server", "delete_server", "find_keypair",
                            "delete_keypair"}
      [] OTHER          -> {}

\* C11: a create, status or destroy that met a provider fault when opening the
\* session, listing or looking up, fetching or deleting a resource, or
\* assigning the floating IP, returns code 500 with the fault's message; it
\* does not raise.
C11_FaultsCaught ==
    last.fault \in UnclassifiedPoints(last.op) =>
        /\ Ok(last.resp, 500)
        /\ last.resp.error = ProviderFault(last.fault).message

\* the last step was a create that looked the image up, met no fault, and the
\* provider has no image of the configured name
ImageMissing ==
    /\ last'.op = "create" /\ last'.fault = "none"
    /\ Called(last'.resp.calls, "find_image")
    /\ ~\E i \in images : i.name = ImageName

\* C12: a create that looks up the configured image name when no image has it
\* fails with a classified failure (an InternalException with its own code and
\* message, not the generic 500), and changes neither the keypairs, nor the
\* servers, nor the registry.
C12_ImageNotFound ==
    [][ ImageMissing
        => /\ ~Ok(last'.resp, 201)
           /\ last'.resp.internal.type = "InternalException"
           /\ ~Ok(last'.resp, 500)
           /\ UNCHANGED <<configurations, servers, keypairs>> ]_vars

\* C12, as far as the code goes: the same create changes nothing and does not
\* return 201.
C12_NothingCreated ==
    [][ ImageMissing
        => /\ ~Ok(last'.resp, 201)
           /\ UNCHANGED <<configurations, servers, keypairs>> ]_vars

\* the operation op as a function of the state it is called in
Apply(op, cfg, srv, kps, imgs, key, offering, fault) ==
    CASE op = "create" -> create(cfg, srv, kps, imgs, offering, fault)
      [] op = "status" -> Effect(cfg, srv, kps, status(cfg, srv, kps, key, fault))
      [] OTHER         -> destroy(cfg, srv, kps, key, fault)

\* what belongs to the key in the registry
Entry(cfg, key) == [k \in DOMAIN cfg \cap {key} |-> cfg[k]]

\* what an operation on the key shows: its response and, after it, the key's
\* registration and the key's servers (their provider ids left aside) and keypairs
Outcome(e, key) ==
    [resp       |-> e.resp,
     registered |-> key \in DOMAIN e.configurations,
     servers    |-> { [name |-> s.name, status |-> s.status, addresses |-> s.addresses] :
                        s \in Named(e.servers, key) },
     keypairs   |-> Named(e.keypairs, key)]

\* C13: the outcome of create, status and destroy of a key (response, the
\* key's registry entry, the servers and keypairs named after it) is the one
\* the same call has when the registry and the provider hold nothing of any
\* other key, also when one key is a substring of the other ("A" and "AB").
C13_KeysIndependent ==
    [][ last'.op \in {"create", "status", "destroy"}
        => Outcome(Effect(configurations', servers', keypairs', last'.resp), Upper(last'.key))
           = Outcome(Apply(last'.op, Entry(configurations, Upper(last'.key)),
                           Named(servers, Upper(last'.key)),
                           Named(keypairs, Upper(last'.key)), images,
                           last'.key, last'.offering, last'.fault),
                     Upper(last'.key)) ]_vars

DuplicateKeypair(key) ==
    Msg("Multiple keypairs with the name {} already exist (duplicate resource)",
        server_name_prefix \o key)

\* C14: a create issues create_keypair only when no keypair has the name
\* "tellus-vm-" + K, so no two keypairs ever share a name; a create that finds
\* a keypair of that name leaves it as it is, whatever public key the offering
\* carries; and a create whose lookup reports the name as ambiguous fails with
\* DuplicateKeypair(400), that is, returns 400 with the duplicate-keypair
\* message, and creates no keypair and no server.
C14_KeypairManager ==
    [][ last'.op = "create"
        => /\ Called(last'.resp.calls, "create_keypair")
                => Named(keypairs, Upper(last'.key)) = {}
           /\ \A k1, k2 \in keypairs' : k1.name = k2.name => k1 = k2
           /\ Named(keypairs, Upper(last'.key)) # {}
                => keypairs' = keypairs /\ ~Called(last'.resp.calls, "create_keypair")
           /\ (last'.fault = "find_keypair_dup" /\ Called(last'.resp.calls, "find_keypair"))
                => /\ Ok(last'.resp, 400)
                   /\ last'.resp.error = DuplicateKeypair(Upper(last'.key))
                   /\ ~Called(last'.resp.calls, "create_keypair")
                   /\ ~Called(last'.resp.calls, "create_server")
                   /\ UNCHANGED <<configurations, servers, keypairs>> ]_vars

\* C14, as far as the code goes: create_keypair is issued only when no
\* keypair has the name, a keypair found is left as it is, and on an ambiguous
\* name the keypair step raises the duplicate-keypair failure,
\* InternalException(400), before any keypair or server is created.
C14_KeypairReuse ==
    [][ last'.op = "create"
        => /\ Called(last'.resp.calls, "create_keypair")
                => Named(keypairs, Upper(last'.key)) = {}
           /\ \A k1, k2 \in keypairs' : k1.name = k2.name => k1 = k2
           /\ Named(keypairs, Upper(last'.key)) # {}
                => keypairs' = keypairs /\ ~Called(last'.resp.calls, "create_keypair")
           /\ (last'.fault = "find_keypair_dup" /\ Called(last'.resp.calls, "find_keypair"))
                => /\ ~Ok(last'.resp, 201)
                   /\ last'.resp.internal
                        = InternalException(DuplicateKeypair(Upper(last'.key)), 400)
                   /\ ~Called(last'.resp.calls, "create_keypair")
                   /\ ~Called(last'.resp.calls, "create_server")
                   /\ UNCHANGED <<configurations, servers, keypairs>> ]_vars

\* a create whose keypair lookup reported the name as ambiguous raised
\* AttributeError instead of returning a response
C14_Escaped ==
    /\ last.op = "create" /\ last.fault = "find_keypair_dup"
    /\ Called(last.resp.calls, "find_keypair")
    /\ last.resp.raised = "AttributeError"

\* a create succeeded with a keypair that an earlier, failed create of the same
\* key had left behind with another public key
C14_Witness ==
    /\ last.op = "create" /\ Ok(last.resp, 201)
    /\ \E k \in Named(keypairs, Key) :
          k.public_key # last.offering.virtual_machine_service_offering[1].ssh_keys[1]

AuthenticationProblem == Msg("There was a problem with authentication", <<>>)

\* C17: an operation whose authorize probe fails makes no provider call after
\* it, returns 401 (status with "down") and changes neither the registry nor
\* the provider; a create for a key the registry holds, or for an offering that
\* is not a VM, returns 400 without any provider call, not even the session.
C17_AuthenticationFirst ==
    [][ /\ last'.fault = "authorize"
            => /\ Ok(last'.resp, 401)
               /\ last'.resp.error = AuthenticationProblem
               /\ last'.resp.calls = <<"connect", "authorize">>
               /\ last'.op = "status" => last'.resp.status = "down"
               /\ UNCHANGED <<configurations, servers, keypairs>>
        /\ (last'.op = "create"
            /\ \/ Upper(last'.key) \in DOMAIN configurations
               \/ last'.offering.virtual_machine_service_offering = NoVmso)
            => /\ Ok(last'.resp, 400)
               /\ last'.resp.calls = <<>>
               /\ UNCHANGED <<configurations, servers, keypairs>> ]_vars

\* a destroy of a registered key with a server and a keypair on the provider
\* met the authentication failure
C17_Witness ==
    /\ last.op = "destroy" /\ last.fault = "authorize"
    /\ last.resp.code = 401
    /\ Key \in DOMAIN configurations
    /\ Named(servers, Key) # {} /\ Named(keypairs, Key) # {}

\* the status the text gives a server in its current provider state
Current(s) ==
    IF ~SecondAddress(s) THEN "down"
    ELSE IF s.status = "ACTIVE" THEN "up"
    ELSE IF s.status = "BUILDING" THEN "preparing"
    ELSE "down"

\* C18: a status call changes neither the registry nor the provider, whatever
\* its outcome, and answers from the state it is called in: 404 for a key the
\* registry does not hold, 500 "down" when the fetch fails or the instance is
\* gone, and otherwise the mapping of the server's current state.
C18_StatusReadOnly ==
    [][ last'.op = "status"
        => /\ UNCHANGED <<configurations, servers, keypairs, images>>
           /\ last'.resp.raised = "none" => last'.resp.code \in {200, 401, 404, 500}
           /\ Upper(last'.key) \notin DOMAIN configurations => Ok(last'.resp, 404)
           /\ (Upper(last'.key) \in DOMAIN configurations /\ last'.fault = "get_server")
                => Ok(last'.resp, 500) /\ last'.resp.status = "down"
           /\ (Upper(last'.key) \in DOMAIN configurations /\ last'.fault = "none")
                => LET found == { s \in servers : s.id = configurations[Upper(last'.key)].id }
                   IN  IF found = {}
                       THEN Ok(last'.resp, 500) /\ last'.resp.status = "down"
                       ELSE \A s \in found :
                              /\ last'.resp.status = Current(s)
                              /\ last'.resp.code = IF SecondAddress(s) THEN 200 ELSE 404
                              /\ (SecondAddress(s) /\ Current(s) = "down")
                                    => last'.resp.error
                                         = Msg("VM is currently in state: {}", <<s.status>>) ]_vars

\* a status of a registered key whose instance was deleted on the provider
C18_Witness ==
    /\ last.op = "status" /\ last.fault = "none"
    /\ Key \in DOMAIN configurations
    /\ ~\E s \in servers : s.id = configurations[Key].id
    /\ last.resp.code = 500 /\ last.resp.status = "down"
    /\ \E k \in DOMAIN configurations : k # Key

\* a server named after the key is on the provider while the registry does not
\* hold the key: without restarts, what a create leaves that failed after its
\* server request was accepted
Orphaned(key) == key \notin DOMAIN configurations /\ Named(servers, key) # {}

\* the servers named after the key that are left after a fault-free
\* destroy(key) in the state e
AfterDestroy(e, key) ==
    Named(destroy(e.configurations, e.servers, e.keypairs, key, "none").servers, key)

\* C19: whenever a server named "tellus-vm-" + K is on the provider without a
\* registry entry for K, a fault-free destroy(K) deletes it, or a fault-free
\* create(K) of some servable offering followed by destroy(K) deletes it.
C19_Removable ==
    \A o \in Servable :
        LET key == Upper(o.order_id)
            now == Effect(configurations, servers, keypairs, Return(0, NoMsg, <<>>))
        IN  Orphaned(key) =>
                \/ AfterDestroy(now, key) = {}
                \/ AfterDestroy(create(configurations, servers, keypairs, images, o, "none"),
                                key) = {}

DeleteFaults == {"find_server", "delete_server", "find_keypair", "delete_keypair"}

\* the key is out of the registry and nothing named after it is on the provider
Gone(key) ==
    /\ key \notin DOMAIN configurations
    /\ Named(servers, key) = {}
    /\ Named(keypairs, key) = {}

\* the last call was a destroy of the registered key in which a delete step raised
FailedDestroy(key) ==
    /\ last.op = "destroy" /\ Upper(last.key) = key
    /\ last.fault \in DeleteFaults
    /\ key \in DOMAIN configurations

\* C16: when a destroy(K) failed because a delete step raised, whether before
\* or after the server was deleted, a fault-free destroy(K) that comes next
\* returns 204 and leaves no registry entry, no server and no keypair of K;
\* and when fault-free destroys are not put off forever, K eventually is out
\* of the registry with no server or keypair named after it left.
C16_Retryable ==
    /\ [][ \A k \in InputKeys :
             (FailedDestroy(Upper(k)) /\ last'.op = "destroy" /\ last'.fault = "none"
              /\ Upper(last'.key) = Upper(k))
             => Ok(last'.resp, 204) /\ Gone(Upper(k))' ]_vars
    /\ \A k \in InputKeys : FailedDestroy(Upper(k)) ~> Gone(Upper(k))

\* a destroy deleted the server and failed at the keypair, and the destroy
\* that came next removed the keypair and the entry
C16_Witness ==
    /\ rt.stage = "retried"
    /\ last.op = "destroy" /\ Ok(last.resp, 204)
    /\ ~Called(last.resp.calls, "delete_server")
    /\ Called(last.resp.calls, "delete_keypair")
    /\ Gone(Key)

\* the callers p and q are both in a call of op for the same upper-cased key
Both(p, q, op) ==
    /\ p # q
    /\ threads[p].op = op /\ threads[q].op = op
    /\ Upper(threads[p].key) = Upper(threads[q].key)

\* C20: when two callers are in destroy(K) at the same time, K having at most
\* one server on the provider, a destroy that has ended has returned 204 or
\* 404; it has not raised.
C20_ConcurrentDestroy ==
    \A p, q \in Callers :
        (/\ Both(p, q, "destroy")
         /\ Cardinality(Named(servers, Upper(threads[p].key))) <= 1
         /\ threads[p].pc = "done")
        => /\ threads[p].resp.raised = "none"
           /\ threads[p].resp.code \in {204, 404}

\* the server the caller's create holds is on the provider under the key's name
Holds(p) == \E s \in Named(servers, Upper(threads[p].key)) : s.id = threads[p].server.id

KeypairRefused ==
    InternalException(Msg("The provided public key data is invalid", <<>>), 400)

\* C15: two creates of one key that both passed the registry check and the
\* pre-check before either requested its server are not stopped by those
\* checks afterwards: with the image there, one that has ended has returned
\* 201, unless the provider refused its create_keypair because the other had
\* just created the keypair; each one that has requested its server holds a
\* server of its own named "tellus-vm-" + K; and the one registry entry for K
\* refers to the server of one of them.
C15_NoMutualExclusion ==
    \A p, q \in Callers :
        (Both(p, q, "create") /\ threads[p].raced /\ threads[q].raced /\ images # {})
        => LET key == Upper(threads[p].key)
           IN  /\ threads[p].pc = "done"
                    => \/ Ok(threads[p].resp, 201)
                       \/ /\ threads[p].resp.internal = KeypairRefused
                          /\ ~Called(threads[p].calls, "create_server")
                          /\ Named(keypairs, key) # {}
               /\ threads[p].server # NoServer
                    => Holds(p) /\ threads[p].server.id # threads[q].server.id
               /\ key \in DOMAIN configurations
                    => \/ Ok(threads[p].resp, 201)
                             /\ configurations[key].id = threads[p].server.id
                       \/ Ok(threads[q].resp, 201)
                             /\ configurations[key].id = threads[q].server.id

\* in no reachable state does a caller wait for a server id: the ids of the
\* model are never used up
IdsSuffice == NewId \in Ids

\* both creates of the key have returned 201: two servers named after the key
\* are on the provider, and the registry entry refers to one of them
C15_Witness ==
    \E p, q \in Callers :
        /\ Both(p, q, "create") /\ threads[p].raced /\ threads[q].raced
        /\ threads[p].pc = "done" /\ threads[q].pc = "done"
        /\ Ok(threads[p].resp, 201) /\ Ok(threads[q].resp, 201)
        /\ Cardinality(Named(servers, Upper(threads[p].key))) = 2
        /\ Upper(threads[p].key) \in DOMAIN configurations
        /\ configurations[Upper(threads[p].key)].id = threads[q].server.id

====
